---- MODULE Spec2Model ----
(***************************************************************************)
(* A model of probit/utils/predictive.py: the Gaussian pushforward of the  *)
(* logit statistics (mean, var) through a link/output function, the        *)
(* moment-matching fitters, the Dirichlet/Beta predictive means and the    *)
(* strategy registry with its accessors.                                   *)
(*                                                                         *)
(* Every function of the module is stateless, so the state machine holds   *)
(* the two module-level registries, the last call (function and arguments) *)
(* and what it returned or raised.  All tensor operations of the module    *)
(* act row by row (sums over dim=1 with keepdim, elementwise arithmetic),  *)
(* so a [N,C] tensor is modelled by one row of NumClasses entries.         *)
(*                                                                         *)
(* Tensor entries are IEEE floats.  They are modelled as decimal floating  *)
(* point numbers m * 10^e with a mantissa of four significant digits,      *)
(* together with nan, +inf and -inf, the float32 overflow threshold and    *)
(* the float32 underflow to zero.                                          *)
(***************************************************************************)
EXTENDS Integers, Sequences, FiniteSets, TLC

\* ------------------------------------------------------------------------
\* Bounds of the model
\* ------------------------------------------------------------------------

\* C, the number of classes of a row.
NumClasses == 2

Classes == 1..NumClasses

\* The largest number of dimensions of a tensor handed to the loss derivative.
MaxDim == 4

\* The largest batch_size of a batch handed to fast_collate.
MaxBatch == 2

\* ------------------------------------------------------------------------
\* Floating point numbers
\* ------------------------------------------------------------------------

\* Mantissas are 0 or have exactly four digits: 1000 <= |m| < 10000.
MantLo == 10^3
MantHi == 10^4

NaN == [k |-> "nan", m |-> 0, e |-> 0]
PosInf == [k |-> "inf", m |-> 1, e |-> 0]
NegInf == [k |-> "inf", m |-> -1, e |-> 0]
Zero == [k |-> "fin", m |-> 0, e |-> 0]
Fin(m, e) == [k |-> "fin", m |-> m, e |-> e]

IsNan(x) == x.k = "nan"
IsInf(x) == x.k = "inf"
IsFin(x) == x.k = "fin"
IsZero(x) == x.k = "fin" /\ x.m = 0

Abs(n) == IF n < 0 THEN -n ELSE n
Sgn(n) == IF n < 0 THEN -1 ELSE IF n > 0 THEN 1 ELSE 0

\* The number of decimal digits of n >= 1 (n < 2^31).
NumDigits(n) ==
    IF n < 10 THEN 1 ELSE IF n < 100 THEN 2 ELSE IF n < 1000 THEN 3
    ELSE IF n < 10000 THEN 4 ELSE IF n < 100000 THEN 5
    ELSE IF n < 1000000 THEN 6 ELSE IF n < 10000000 THEN 7
    ELSE IF n < 100000000 THEN 8 ELSE IF n < 1000000000 THEN 9 ELSE 10

\* float32 holds magnitudes from about 1.4e-45 (the smallest subnormal) to
\* about 3.4e38; float64 from about 4.9e-324 to about 1.8e308.
Overflows(m, e, dtype) ==
    IF dtype = "float32"
    THEN e > 35 \/ (e = 35 /\ Abs(m) > 3402)
    ELSE e > 305 \/ (e = 305 /\ Abs(m) > 1797)
Underflows(m, e, dtype) ==
    IF dtype = "float32"
    THEN e < -48 \/ (e = -48 /\ Abs(m) < 1401)
    ELSE e < -327 \/ (e = -327 /\ Abs(m) < 4941)

\* The float of type dtype nearest to the four-digit number m * 10^e.
Cast(m, e, dtype) ==
    IF m = 0 THEN Zero
    ELSE IF Overflows(m, e, dtype) THEN (IF m > 0 THEN PosInf ELSE NegInf)
    ELSE IF Underflows(m, e, dtype) THEN Zero
    ELSE Fin(m, e)

\* The float nearest to n * 10^e for any integer n: n is rounded to four
\* significant digits (half away from zero).
Round(n, e, dtype) ==
    IF n = 0 THEN Zero
    ELSE LET a == Abs(n)
             d == NumDigits(a)
         IN  IF d <= 4
             THEN Cast(Sgn(n) * a * 10^(4 - d), e - (4 - d), dtype)
             ELSE LET sh == d - 4
                      q == (a + 5 * 10^(sh - 1)) \div 10^sh
                  IN  IF q = MantHi
                      THEN Cast(Sgn(n) * MantLo, e + sh + 1, dtype)
                      ELSE Cast(Sgn(n) * q, e + sh, dtype)

\* x converted to dtype (tensor.float(), tensor.double()).
To(x, dtype) == IF IsFin(x) THEN Cast(x.m, x.e, dtype) ELSE x

FNeg(x) == IF IsNan(x) THEN NaN ELSE [x EXCEPT !.m = -x.m]

\* x + y.  A finite summand more than five decimal orders below the other
\* one is lost in the rounding.
FAddT(x, y, dtype) ==
    IF IsNan(x) \/ IsNan(y) THEN NaN
    ELSE IF IsInf(x) /\ IsInf(y) THEN (IF x.m = y.m THEN x ELSE NaN)
    ELSE IF IsInf(x) THEN x
    ELSE IF IsInf(y) THEN y
    ELSE IF x.m = 0 THEN To(y, dtype)
    ELSE IF y.m = 0 THEN To(x, dtype)
    ELSE LET hi == IF x.e >= y.e THEN x ELSE y
             lo == IF x.e >= y.e THEN y ELSE x
             d == hi.e - lo.e
         IN  IF d > 5 THEN To(hi, dtype)
             ELSE Round(hi.m * 10^d + lo.m, lo.e, dtype)

FSubT(x, y, dtype) == FAddT(x, FNeg(y), dtype)

FMulT(x, y, dtype) ==
    IF IsNan(x) \/ IsNan(y) THEN NaN
    ELSE IF IsInf(x) \/ IsInf(y)
         THEN (IF x.m = 0 \/ y.m = 0 THEN NaN
               ELSE IF Sgn(x.m) = Sgn(y.m) THEN PosInf ELSE NegInf)
    ELSE Round(x.m * y.m, x.e + y.e, dtype)

FDivT(x, y, dtype) ==
    IF IsNan(x) \/ IsNan(y) THEN NaN
    ELSE IF IsInf(x)
         THEN (IF IsInf(y) THEN NaN
               ELSE IF Sgn(x.m) * (IF y.m < 0 THEN -1 ELSE 1) > 0
                    THEN PosInf ELSE NegInf)
    ELSE IF IsInf(y) THEN Zero
    ELSE IF y.m = 0
         THEN (IF x.m = 0 THEN NaN ELSE IF x.m > 0 THEN PosInf ELSE NegInf)
    ELSE LET q == (2 * Abs(x.m) * 10^5 + Abs(y.m)) \div (2 * Abs(y.m))
         IN  Round(Sgn(x.m) * Sgn(y.m) * q, x.e - y.e - 5, dtype)

\* The integer square root of n >= 0, by bisection on lo <= r < hi.
RECURSIVE ISqrtIn(_, _, _)
ISqrtIn(n, lo, hi) ==
    IF hi - lo <= 1 THEN lo
    ELSE LET mid == (lo + hi) \div 2
         IN  IF mid * mid <= n THEN ISqrtIn(n, mid, hi) ELSE ISqrtIn(n, lo, mid)

\* The integer nearest to the square root of n, 0 <= n < 10^8.
ISqrt(n) ==
    LET r == ISqrtIn(n, 0, 10001)
    IN  IF n > r * r + r THEN r + 1 ELSE r

FSqrtT(x, dtype) ==
    IF IsNan(x) THEN NaN
    ELSE IF IsInf(x) THEN (IF x.m > 0 THEN PosInf ELSE NaN)
    ELSE IF x.m = 0 THEN Zero
    ELSE IF x.m < 0 THEN NaN
    ELSE IF x.e % 2 = 0
         THEN Round(ISqrt(x.m * 10^4), (x.e \div 2) - 2, dtype)
         ELSE Round(ISqrt(x.m * 10^3), ((x.e - 1) \div 2) - 1, dtype)

\* Tensors are float32 unless a line of the source says otherwise.
FAdd(x, y) == FAddT(x, y, "float32")
FSub(x, y) == FSubT(x, y, "float32")
FMul(x, y) == FMulT(x, y, "float32")
FDiv(x, y) == FDivT(x, y, "float32")
FSqrt(x) == FSqrtT(x, "float32")

\* x < y and x <= y; every comparison with nan is false.
FLt(x, y) ==
    /\ ~IsNan(x) /\ ~IsNan(y)
    /\ x # y
    /\ IF IsInf(x) THEN x.m < 0
       ELSE IF IsInf(y) THEN y.m > 0
       ELSE FSubT(x, y, "float64").m < 0
FLe(x, y) == ~IsNan(x) /\ ~IsNan(y) /\ (x = y \/ FLt(x, y))

\* |x - y| <= tol.
Near(x, y, tol) ==
    /\ IsFin(x) /\ IsFin(y)
    /\ FLe(FSubT(x, y, "float64"), tol) /\ FLe(FSubT(y, x, "float64"), tol)

One == Fin(1000, -3)
Two == Fin(2000, -3)

\* An integer as a float (a Python int or an int64 tensor meeting a float32
\* tensor).
FromInt(n) == Round(n, 0, "float32")

\* ln 10 in units of 10^-5.
Ln10 == 2 * 115129 + 1
\* 10^(j/4) in units of 10^-4, j = 0..3.
QuarterDecade == <<10000, 17783, 31623, 56234>>

\* ln(m / 1000) in units of 10^-5, for a mantissa 1000 <= m < 10000: the
\* mantissa is divided by the power 10^(j/4) below it and the logarithm of the
\* rest u is 2 * (z + z^3/3 + z^5/5 + z^7/7) with z = (u - 1) / (u + 1).
LnMant(m) ==
    LET j == IF m >= 5624 THEN 3 ELSE IF m >= 3163 THEN 2
             ELSE IF m >= 1779 THEN 1 ELSE 0
        d == QuarterDecade[j + 1]
        num == 10 * m - d
        den == 10 * m + d
        z == ((num * 10^4) \div den) * 10 + (((num * 10^4) % den) * 10) \div den
        z2 == (z * z) \div 10^5
        t3 == (z * z2) \div 10^5
        t5 == (t3 * z2) \div 10^5
        t7 == (t5 * z2) \div 10^5
    IN  (j * Ln10) \div 4 + 2 * (z + t3 \div 3 + t5 \div 5 + t7 \div 7)

\* torch.log
FLog(x) ==
    IF IsNan(x) THEN NaN
    ELSE IF IsInf(x) THEN (IF x.m > 0 THEN PosInf ELSE NaN)
    ELSE IF x.m = 0 THEN NegInf
    ELSE IF x.m < 0 THEN NaN
    ELSE Round(LnMant(x.m) + (x.e + 3) * Ln10, -5, "float32")

\* 10^(j/8) for j = 0..7.
EighthDecade ==
    << Fin(1000, -3), Fin(1334, -3), Fin(1778, -3), Fin(2371, -3),
       Fin(3162, -3), Fin(4217, -3), Fin(5623, -3), Fin(7499, -3) >>

\* exp(r / 10^5) in units of 10^-5 for 0 <= r < Ln10 / 8, by its Taylor series.
ExpSmall(r) ==
    LET t2 == (r * r) \div (2 * 10^5)
        t3 == (t2 * r) \div (3 * 10^5)
        t4 == (t3 * r) \div (4 * 10^5)
        t5 == (t4 * r) \div (5 * 10^5)
        t6 == (t5 * r) \div (6 * 10^5)
    IN  10^5 + r + t2 + t3 + t4 + t5 + t6

\* torch.exp.  exp(y) is 10^k * 10^(j/8) * exp(r) with y = (8k + j) ln(10)/8 + r.
FExp(x) ==
    IF IsNan(x) THEN NaN
    ELSE IF IsInf(x) THEN (IF x.m > 0 THEN PosInf ELSE Zero)
    ELSE IF x.m = 0 THEN One
    ELSE IF x.e >= 0 THEN (IF x.m > 0 THEN PosInf ELSE Zero)
    ELSE LET y == IF x.e >= -5 THEN x.m * 10^(x.e + 5)
                  ELSE IF x.e >= -9 THEN x.m \div 10^(-5 - x.e)
                  ELSE IF x.m > 0 THEN 0 ELSE -1
             step == Ln10 \div 8
             n == y \div step
             r == y % step
             k == n \div 8
             j == n % 8
             f == FMulT(Round(ExpSmall(r), -5, "float64"), EighthDecade[j + 1],
                        "float64")
         IN  Cast(f.m, f.e + k, "float32")

\* torch.maximum and clamp(min=...): nan is propagated.
FMaximum(x, y) ==
    IF IsNan(x) \/ IsNan(y) THEN NaN ELSE IF FLt(x, y) THEN y ELSE x

\* torch.sum(row, dim=1): the entries of a row, added in order.
RECURSIVE SumTo(_, _)
SumTo(row, n) == IF n = 0 THEN Zero ELSE FAdd(SumTo(row, n - 1), row[n])
FSum(row) == SumTo(row, NumClasses)

\* ------------------------------------------------------------------------
\* Strings.  Python compares strings by prefix, suffix and substring, so a
\* string is the sequence of its characters.
\* ------------------------------------------------------------------------

startswith(s, prefix) ==
    Len(prefix) <= Len(s) /\ SubSeq(s, 1, Len(prefix)) = prefix
endswith(s, suffix) ==
    Len(suffix) <= Len(s) /\ SubSeq(s, Len(s) - Len(suffix) + 1, Len(s)) = suffix
\* sub in s
contains(s, sub) ==
    \E i \in 1..(Len(s) - Len(sub) + 1) : SubSeq(s, i, i + Len(sub) - 1) = sub

S_softmax == <<"s", "o", "f", "t", "m", "a", "x">>
S_probit == <<"p", "r", "o", "b", "i", "t">>
S_logit == <<"l", "o", "g", "i", "t">>
S_normcdf == <<"n", "o", "r", "m", "c", "d", "f">>
S_sigmoid == <<"s", "i", "g", "m", "o", "i", "d">>
S_sigmoid_product == <<"s", "i", "g", "m", "o", "i", "d", "_", "p", "r", "o", "d", "u", "c", "t">>
S_mc == <<"m", "c">>
S_log_sigmoid == <<"l", "o", "g", "_", "s", "i", "g", "m", "o", "i", "d">>
S_cloglog == <<"c", "l", "o", "g", "l", "o", "g">>


\* ------------------------------------------------------------------------
\* What a call returns or raises
\* ------------------------------------------------------------------------

Ok(v) == [raised |-> "None", value |-> v]
Raise(exc) == [raised |-> exc, value |-> <<>>]
Raised(r) == r.raised # "None"

\* ------------------------------------------------------------------------
\* The special functions of torch and scipy at the arguments the input grid
\* produces: a value v of a table stands for the float64 v[1] * 10^v[2]
\* ------------------------------------------------------------------------

NDTR ==
       <<-9381, -3>> :> <<3267, -24>>
    @@ <<-8163, -4>> :> <<2072, -4>>
    @@ <<-6266, -4>> :> <<2655, -4>>
    @@ <<-5774, -4>> :> <<2818, -4>>
    @@ <<-5727, -4>> :> <<2834, -4>>
    @@ <<-4690, -4>> :> <<3195, -4>>
    @@ <<-2000, -2>> :> <<2754, -92>>
    @@ <<-1633, -2>> :> <<3019, -63>>
    @@ <<-1253, -2>> :> <<2558, -39>>
    @@ <<-1155, -2>> :> <<3691, -34>>
    @@ <<-1145, -2>> :> <<1176, -33>>
    @@ <<-1000, -3>> :> <<1587, -4>>
    @@ <<0, 0>> :> <<5000, -4>>
    @@ <<1000, -3>> :> <<8413, -4>>
    @@ <<4690, -4>> :> <<6805, -4>>
    @@ <<5727, -4>> :> <<7166, -4>>
    @@ <<5774, -4>> :> <<7182, -4>>
    @@ <<6266, -4>> :> <<7345, -4>>
    @@ <<8163, -4>> :> <<7928, -4>>

SIGMOID ==
       <<-9141, -4>> :> <<2862, -4>>
    @@ <<-8163, -4>> :> <<3065, -4>>
    @@ <<-7485, -4>> :> <<3211, -4>>
    @@ <<-5774, -4>> :> <<3595, -4>>
    @@ <<-2000, -2>> :> <<2061, -12>>
    @@ <<-1828, -2>> :> <<1151, -11>>
    @@ <<-1633, -2>> :> <<8090, -11>>
    @@ <<-1497, -2>> :> <<3152, -10>>
    @@ <<-1155, -2>> :> <<9636, -9>>
    @@ <<-1000, -3>> :> <<2689, -4>>
    @@ <<0, 0>> :> <<5000, -4>>
    @@ <<1000, -3>> :> <<7311, -4>>
    @@ <<5774, -4>> :> <<6405, -4>>
    @@ <<7485, -4>> :> <<6789, -4>>
    @@ <<8163, -4>> :> <<6935, -4>>
    @@ <<9141, -4>> :> <<7138, -4>>

OWENS_T ==
       <<-9381, -3, 6238, -4>> :> <<1634, -24>>
    @@ <<-8163, -4, 7072, -4>> :> <<6688, -5>>
    @@ <<-6266, -4, 1000, -3>> :> <<9750, -5>>
    @@ <<-5774, -4, 4472, -4>> :> <<5606, -5>>
    @@ <<-5727, -4, 8475, -4>> :> <<9187, -5>>
    @@ <<-4690, -4, 6238, -4>> :> <<7850, -5>>
    @@ <<-2000, -2, 1000, -3>> :> <<1377, -92>>
    @@ <<-1633, -2, 7072, -4>> :> <<1510, -63>>
    @@ <<-1253, -2, 1000, -3>> :> <<1279, -39>>
    @@ <<-1155, -2, 4472, -4>> :> <<1846, -34>>
    @@ <<-1145, -2, 8475, -4>> :> <<5879, -34>>
    @@ <<-1000, -3, 1000, -3>> :> <<6674, -5>>
    @@ <<0, 0, 1000, -3>> :> <<1250, -4>>
    @@ <<0, 0, 4472, -4>> :> <<6693, -5>>
    @@ <<0, 0, 6238, -4>> :> <<8877, -5>>
    @@ <<0, 0, 7072, -4>> :> <<9797, -5>>
    @@ <<0, 0, 8475, -4>> :> <<1119, -4>>
    @@ <<1000, -3, 1000, -3>> :> <<6674, -5>>
    @@ <<4690, -4, 6238, -4>> :> <<7850, -5>>
    @@ <<5727, -4, 8475, -4>> :> <<9187, -5>>
    @@ <<5774, -4, 4472, -4>> :> <<5606, -5>>
    @@ <<6266, -4, 1000, -3>> :> <<9750, -5>>
    @@ <<8163, -4, 7072, -4>> :> <<6688, -5>>

\* torch.special.ndtr on a float64 tensor: the standard normal CDF.
ndtr(x) ==
    IF IsNan(x) THEN NaN
    ELSE IF IsInf(x) THEN (IF x.m > 0 THEN One ELSE Zero)
    ELSE LET v == NDTR[<<x.m, x.e>>] IN Cast(v[1], v[2], "float64")

\* F.sigmoid on a float32 tensor.
sigmoid(x) ==
    IF IsNan(x) THEN NaN
    ELSE IF IsInf(x) THEN (IF x.m > 0 THEN One ELSE Zero)
    ELSE LET v == SIGMOID[<<x.m, x.e>>] IN Cast(v[1], v[2], "float32")

\* scipy.special.owens_t(h, a) on float32 arrays.
owens_t(h, a) ==
    IF IsNan(h) \/ IsNan(a) THEN NaN
    ELSE LET v == OWENS_T[<<h.m, h.e, a.m, a.e>>] IN Cast(v[1], v[2], "float32")

\* ------------------------------------------------------------------------
\* Link/output pushforward
\* ------------------------------------------------------------------------

\* LAMBDA_0 = math.pi / 8 = 0.3927
LAMBDA_0 == Fin(3927, -4)

\* Variant of probit_scale: an unknown link falls back to the probit scale.
probit_scale_default(link_function) ==
    IF link_function = "logit" THEN Ok(LAMBDA_0) ELSE Ok(One)

\* Variant of probit_scale: the two scales interchanged.
probit_scale_swapped(link_function) ==
    IF link_function = "probit" THEN Ok(LAMBDA_0)
    ELSE IF link_function = "logit" THEN Ok(One)
    ELSE Raise("NotImplementedError")

probit_scale(link_function) ==
    IF link_function = "probit" THEN Ok(One)
    ELSE IF link_function = "logit" THEN Ok(LAMBDA_0)
    ELSE Raise("NotImplementedError")

\* means / torch.sqrt(1 / scale + vars), elementwise
normcdf_logits(means, vars, scale) ==
    [c \in Classes |-> FDiv(means[c], FSqrt(FAdd(FDiv(One, scale), vars[c])))]
\* means / torch.sqrt(1 + scale * vars), elementwise
sigmoid_logits(means, vars, scale) ==
    [c \in Classes |-> FDiv(means[c], FSqrt(FAdd(One, FMul(scale, vars[c]))))]

gaussian_pushforward_mean(means, vars, link_function, output_function, return_logits) ==
    LET sc == probit_scale(link_function)
    IN  IF Raised(sc) THEN sc
        ELSE IF contains(output_function, S_normcdf)
        THEN LET logits == normcdf_logits(means, vars, sc.value)
             IN  IF return_logits THEN Ok(logits)
                 ELSE Ok([c \in Classes |->
                             To(ndtr(To(logits[c], "float64")), "float32")])
        ELSE IF contains(output_function, S_sigmoid)
        THEN LET logits == sigmoid_logits(means, vars, sc.value)
             IN  IF return_logits THEN Ok(logits)
                 ELSE Ok([c \in Classes |-> sigmoid(logits[c])])
        ELSE Raise("NotImplementedError")

\* Variant of sigmoid_product_moment: multiplies by the root.
sigmoid_product_moment_times(s, vars, scale) ==
    [c \in Classes |->
        FSub(s[c], FMul(FMul(s[c], FSub(One, s[c])),
                        FSqrt(FAdd(One, FMul(scale, vars[c])))))]

\* s - s * (1 - s) / torch.sqrt(1 + scale * vars), elementwise
sigmoid_product_moment(s, vars, scale) ==
    [c \in Classes |->
        FSub(s[c], FDiv(FMul(s[c], FSub(One, s[c])),
                        FSqrt(FAdd(One, FMul(scale, vars[c])))))]

\* Variant of t_term: the sign of the Owen's T term lost.
t_term_positive(means, vars, scale) ==
    LET owens_t_input1 ==
            [c \in Classes |->
                FDiv(means[c], FSqrt(FAdd(FDiv(One, scale), vars[c])))]
        owens_t_input2 ==
            [c \in Classes |->
                FDiv(One, FSqrt(FAdd(One, FMul(FMul(Two, scale), vars[c]))))]
    IN  [c \in Classes |->
            FMul(Two, owens_t(owens_t_input1[c], owens_t_input2[c]))]

\* -2 * owens_t(means / sqrt(1 / scale + vars), 1 / sqrt(1 + 2 * scale * vars))
t_term(means, vars, scale) ==
    LET owens_t_input1 == normcdf_logits(means, vars, scale)
        owens_t_input2 ==
            [c \in Classes |->
                FDiv(One, FSqrt(FAdd(One, FMul(FMul(Two, scale), vars[c]))))]
    IN  [c \in Classes |->
            FMul(FNeg(Two), owens_t(owens_t_input1[c], owens_t_input2[c]))]

gaussian_pushforward_second_moment(means, vars, link_function, output_function) ==
    LET sc == probit_scale(link_function)
    IN  IF Raised(sc) THEN sc
        ELSE IF output_function = S_sigmoid_product
        THEN IF link_function = "logit"
             THEN LET s == gaussian_pushforward_mean(means, vars, "logit",
                                                     S_sigmoid, FALSE)
                  IN  Ok(sigmoid_product_moment(s.value, vars, sc.value))
             ELSE Raise("NotImplementedError")
        ELSE LET t == t_term(means, vars, sc.value)
                 p_term == gaussian_pushforward_mean(means, vars, link_function,
                                                     output_function, FALSE)
             IN  IF Raised(p_term) THEN p_term
                 ELSE Ok([c \in Classes |-> FAdd(p_term.value[c], t[c])])

\* ------------------------------------------------------------------------
\* Predictive distributions
\* ------------------------------------------------------------------------

\* The floor of probit_predictive, 1e-10.
PredictiveFloor == Fin(1000, -13)

probit_predictive(mean, var, link_function, output_function, return_logits) ==
    LET predictives == gaussian_pushforward_mean(mean, var, link_function,
                                                 output_function, return_logits)
    IN  IF Raised(predictives) THEN predictives
        ELSE IF return_logits THEN predictives
        ELSE LET sum_predictives == FSum(predictives.value)
             IN  Ok([c \in Classes |->
                        FMaximum(FDiv(predictives.value[c], sum_predictives),
                                 PredictiveFloor)])

\* beta_params[c] is the pair <<alpha, beta>> of class c.
beta_predictive(beta_params) ==
    LET predictives ==
            [c \in Classes |->
                FDiv(beta_params[c][1], FAdd(beta_params[c][1], beta_params[c][2]))]
        sum_predictives == FSum(predictives)
    IN  Ok([c \in Classes |-> FDiv(predictives[c], sum_predictives)])

\* Variant of dirichlet_predictive: the rows with a nan are zeroed and the
\* nan entries are not set to 1 / nan_count.
dirichlet_predictive_zeroed(params) ==
    LET total == FSum(params)
        predictives == [c \in Classes |-> FDiv(params[c], total)]
        any_nan == \E c \in Classes : IsNan(predictives[c])
    IN  Ok([c \in Classes |-> IF any_nan THEN Zero ELSE predictives[c]])

\* Variant of dirichlet_predictive: nan entries become 1 / num_classes.
dirichlet_predictive_uniform(params) ==
    LET total == FSum(params)
        predictives == [c \in Classes |-> FDiv(params[c], total)]
        is_nan == [c \in Classes |-> IsNan(predictives[c])]
        any_nan == \E c \in Classes : is_nan[c]
        zeroed == [c \in Classes |-> IF any_nan THEN Zero ELSE predictives[c]]
    IN  Ok([c \in Classes |->
               IF is_nan[c] THEN FDiv(One, FromInt(NumClasses)) ELSE zeroed[c]])

dirichlet_predictive(params) ==
    LET total == FSum(params)
        predictives == [c \in Classes |-> FDiv(params[c], total)]
        is_nan == [c \in Classes |-> IsNan(predictives[c])]
        nan_count == Cardinality({c \in Classes : is_nan[c]})
        any_nan == \E c \in Classes : is_nan[c]
        zeroed == [c \in Classes |-> IF any_nan THEN Zero ELSE predictives[c]]
    IN  Ok([c \in Classes |->
               IF is_nan[c] THEN FDiv(One, FromInt(nan_count)) ELSE zeroed[c]])

\* ------------------------------------------------------------------------
\* Moment-matching fitters
\* ------------------------------------------------------------------------

\* L = (M1 - M2) / (M2 - M1**2); beta_params = (M1 * L, (1 - M1) * L)
mom_beta_params(M1, M2) ==
    LET L == [c \in Classes |->
                 FDiv(FSub(M1[c], M2[c]), FSub(M2[c], FMul(M1[c], M1[c])))]
    IN  [c \in Classes |-> << FMul(M1[c], L[c]), FMul(FSub(One, M1[c]), L[c]) >>]

get_mom_beta_approximation(means, vars, link_function, output_function) ==
    LET M1 == gaussian_pushforward_mean(means, vars, link_function,
                                        output_function, FALSE)
        M2 == gaussian_pushforward_second_moment(means, vars, link_function,
                                                 output_function)
    IN  IF Raised(M1) THEN M1
        ELSE IF Raised(M2) THEN M2
        ELSE Ok(mom_beta_params(M1.value, M2.value))

\* torch.log((M1 * S - M2) / (M2 - M1**2)), elementwise
log_ratio(M1, M2, S) ==
    [c \in Classes |->
        FLog(FDiv(FSub(FMul(M1[c], S), M2[c]), FSub(M2[c], FMul(M1[c], M1[c]))))]

\* P * M1 / S, elementwise
scaled_mean(P, M1, S) == [c \in Classes |-> FDiv(FMul(P, M1[c]), S)]

\* Variant of mom_dirichlet_params: every class has a scale of its own,
\* exp(log_ratio) of that class, and no shared P.
mom_dirichlet_params_per_class(M1, M2) ==
    LET S == FMaximum(FSum(M1), One)
    IN  [c \in Classes |->
            FDiv(FMul(FExp(log_ratio(M1, M2, S)[c]), M1[c]), S)]

\* Variant of mom_dirichlet_params: P * M2 / S is returned.
mom_dirichlet_params_second(M1, M2) ==
    LET S == FMaximum(FSum(M1), One)
    IN  scaled_mean(FExp(FDiv(FSum(log_ratio(M1, M2, S)), FromInt(NumClasses))),
                    M2, S)

\* S = max(sum(M1), 1); LP = mean(log_ratio); P = exp(LP); P * M1 / S
mom_dirichlet_params(M1, M2) ==
    LET S == FMaximum(FSum(M1), One)
    IN  scaled_mean(FExp(FDiv(FSum(log_ratio(M1, M2, S)), FromInt(NumClasses))),
                    M1, S)

get_mom_dirichlet_approximation(means, vars, link_function, output_function) ==
    LET M1 == gaussian_pushforward_mean(means, vars, link_function,
                                        output_function, FALSE)
        M2 == gaussian_pushforward_second_moment(means, vars, link_function,
                                                 output_function)
    IN  IF Raised(M1) THEN M1
        ELSE IF Raised(M2) THEN M2
        ELSE Ok(mom_dirichlet_params(M1.value, M2.value))

\* ------------------------------------------------------------------------
\* Analytic diagonal Hessians
\* ------------------------------------------------------------------------

\* y * q * q_complement + p * (1 - 3 * q + 2 * q**2) - pq_complement**2 with
\* q = sigmoid(logit), p = q / q.sum(), y = one_hot(target); target is a class
\* index counted from 1.
diag_hessian_normalized_sigmoid(logit, target) ==
    LET q == [c \in Classes |-> sigmoid(logit[c])]
        p == [c \in Classes |-> FDiv(q[c], FSum(q))]
        y == [c \in Classes |-> IF c = target THEN One ELSE Zero]
        q_complement == [c \in Classes |-> FSub(One, q[c])]
        pq_complement == [c \in Classes |-> FMul(p[c], q_complement[c])]
    IN  Ok([c \in Classes |->
               FSub(FAdd(FMul(FMul(y[c], q[c]), q_complement[c]),
                         FMul(p[c],
                              FAdd(FSub(One, FMul(FromInt(3), q[c])),
                                   FMul(Two, FMul(q[c], q[c]))))),
                    FMul(pq_complement[c], pq_complement[c]))])

\* ------------------------------------------------------------------------
\* Predictive strategies
\* ------------------------------------------------------------------------

\* The largest entry of a row.
RECURSIVE MaxTo(_, _)
MaxTo(row, n) ==
    IF n = 1 THEN row[1] ELSE FMaximum(MaxTo(row, n - 1), row[n])

\* logits.softmax(dim=-1): exp(x - max(x)) / sum(exp(x - max(x)))
softmax(row) ==
    LET exps == [c \in Classes |-> FExp(FSub(row[c], MaxTo(row, NumClasses)))]
    IN  [c \in Classes |-> FDiv(exps[c], FSum(exps))]

\* mean / (1 + LAMBDA_0 * var).sqrt(), elementwise
mean_field_logits(mean, var) ==
    [c \in Classes |-> FDiv(mean[c], FSqrt(FAdd(One, FMul(LAMBDA_0, var[c]))))]

softmax_mean_field(mean, var, return_logits) ==
    IF return_logits THEN Ok(mean_field_logits(mean, var))
    ELSE Ok(softmax(mean_field_logits(mean, var)))

\* The keyword arguments link_function and output_function that each of
\* {logit,probit}_link_{normcdf,sigmoid}_output passes to probit_predictive.
LinkOutputStrategies ==
    [logit_link_normcdf_output |-> << "logit", S_normcdf >>,
     logit_link_sigmoid_output |-> << "logit", S_sigmoid >>,
     probit_link_normcdf_output |-> << "probit", S_normcdf >>,
     probit_link_sigmoid_output |-> << "probit", S_sigmoid >>]

\* func(mean, var, return_logits=return_logits), func one of the four.
link_output_strategy(func, mean, var, return_logits) ==
    probit_predictive(mean, var, LinkOutputStrategies[func][1],
                      LinkOutputStrategies[func][2], return_logits)

\* The keyword arguments that each of the five *_dirichlet functions passes
\* to get_mom_dirichlet_approximation.
DirichletStrategies ==
    [logit_link_normcdf_output_dirichlet |-> << "logit", S_normcdf >>,
     logit_link_sigmoid_output_dirichlet |-> << "logit", S_sigmoid >>,
     logit_link_sigmoid_product_output_dirichlet |-> << "logit", S_sigmoid_product >>,
     probit_link_normcdf_output_dirichlet |-> << "probit", S_normcdf >>,
     probit_link_sigmoid_output_dirichlet |-> << "probit", S_sigmoid >>]

\* func(mean, var), func one of the five.
dirichlet_strategy(func, mean, var) ==
    get_mom_dirichlet_approximation(mean, var, DirichletStrategies[func][1],
                                    DirichletStrategies[func][2])

\* ------------------------------------------------------------------------
\* The strategy registry and its accessors
\* ------------------------------------------------------------------------

S_softmax_laplace_bridge ==
    <<"s", "o", "f", "t", "m", "a", "x", "_", "l", "a", "p", "l", "a", "c", "e", "_", "b", "r", "i", "d", "g", "e">>
S_softmax_mean_field ==
    <<"s", "o", "f", "t", "m", "a", "x", "_", "m", "e", "a", "n", "_", "f", "i", "e", "l", "d">>
S_softmax_mc ==
    <<"s", "o", "f", "t", "m", "a", "x", "_", "m", "c">>
S_logit_link_normcdf_output ==
    <<"l", "o", "g", "i", "t", "_", "l", "i", "n", "k", "_", "n", "o", "r", "m", "c", "d", "f", "_", "o", "u", "t", "p", "u", "t">>
S_logit_link_sigmoid_output ==
    <<"l", "o", "g", "i", "t", "_", "l", "i", "n", "k", "_", "s", "i", "g", "m", "o", "i", "d", "_", "o", "u", "t", "p", "u", "t">>
S_logit_link_sigmoid_product_output ==
    <<"l", "o", "g", "i", "t", "_", "l", "i", "n", "k", "_", "s", "i", "g", "m", "o", "i", "d", "_", "p", "r", "o", "d", "u", "c", "t", "_", "o", "u", "t", "p", "u", "t">>
S_logit_link_mc ==
    <<"l", "o", "g", "i", "t", "_", "l", "i", "n", "k", "_", "m", "c">>
S_probit_link_normcdf_output ==
    <<"p", "r", "o", "b", "i", "t", "_", "l", "i", "n", "k", "_", "n", "o", "r", "m", "c", "d", "f", "_", "o", "u", "t", "p", "u", "t">>
S_probit_link_sigmoid_output ==
    <<"p", "r", "o", "b", "i", "t", "_", "l", "i", "n", "k", "_", "s", "i", "g", "m", "o", "i", "d", "_", "o", "u", "t", "p", "u", "t">>
S_probit_link_mc ==
    <<"p", "r", "o", "b", "i", "t", "_", "l", "i", "n", "k", "_", "m", "c">>
S_logit_link_normcdf_output_dirichlet ==
    <<"l", "o", "g", "i", "t", "_", "l", "i", "n", "k", "_", "n", "o", "r", "m", "c", "d", "f", "_", "o", "u", "t", "p", "u", "t", "_", "d", "i", "r", "i", "c", "h", "l", "e", "t">>
S_logit_link_sigmoid_output_dirichlet ==
    <<"l", "o", "g", "i", "t", "_", "l", "i", "n", "k", "_", "s", "i", "g", "m", "o", "i", "d", "_", "o", "u", "t", "p", "u", "t", "_", "d", "i", "r", "i", "c", "h", "l", "e", "t">>
S_probit_link_normcdf_output_dirichlet ==
    <<"p", "r", "o", "b", "i", "t", "_", "l", "i", "n", "k", "_", "n", "o", "r", "m", "c", "d", "f", "_", "o", "u", "t", "p", "u", "t", "_", "d", "i", "r", "i", "c", "h", "l", "e", "t">>
S_probit_link_sigmoid_output_dirichlet ==
    <<"p", "r", "o", "b", "i", "t", "_", "l", "i", "n", "k", "_", "s", "i", "g", "m", "o", "i", "d", "_", "o", "u", "t", "p", "u", "t", "_", "d", "i", "r", "i", "c", "h", "l", "e", "t">>
S_softmax_mean_field_mc ==
    <<"s", "o", "f", "t", "m", "a", "x", "_", "m", "e", "a", "n", "_", "f", "i", "e", "l", "d", "_", "m", "c">>
S_probit_mc ==
    <<"p", "r", "o", "b", "i", "t", "_", "m", "c">>
S_sigmoid_mc ==
    <<"s", "i", "g", "m", "o", "i", "d", "_", "m", "c">>
S_laplace_bridge ==
    <<"l", "a", "p", "l", "a", "c", "e", "_", "b", "r", "i", "d", "g", "e">>
S_Softmax_mc ==
    <<"S", "o", "f", "t", "m", "a", "x", "_", "m", "c">>

\* The registry a module holds after it is loaded (PREDICTIVE_DICT = {...}):
\* strategy name -> the name of the registered function.
PredictiveDictAtLoad ==
       S_softmax_laplace_bridge :> "softmax_laplace_bridge"
    @@ S_softmax_mean_field :> "softmax_mean_field"
    @@ S_softmax_mc :> "softmax_mc"
    @@ S_logit_link_normcdf_output :> "logit_link_normcdf_output"
    @@ S_logit_link_sigmoid_output :> "logit_link_sigmoid_output"
    @@ S_logit_link_sigmoid_product_output :> "logit_link_sigmoid_output"
    @@ S_logit_link_mc :> "logit_link_mc"
    @@ S_probit_link_normcdf_output :> "probit_link_normcdf_output"
    @@ S_probit_link_sigmoid_output :> "probit_link_sigmoid_output"
    @@ S_probit_link_mc :> "probit_link_mc"

\* Variant of DirichletDictAtLoad: the keys are the names of the functions.
DirichletDictByFunctionName ==
       S_logit_link_normcdf_output_dirichlet :> "logit_link_normcdf_output_dirichlet"
    @@ S_logit_link_sigmoid_output_dirichlet :> "logit_link_sigmoid_output_dirichlet"
    @@ S_probit_link_normcdf_output_dirichlet :> "probit_link_normcdf_output_dirichlet"
    @@ S_probit_link_sigmoid_output_dirichlet :> "probit_link_sigmoid_output_dirichlet"

DirichletDictAtLoad ==
       S_logit_link_normcdf_output :> "logit_link_normcdf_output_dirichlet"
    @@ S_logit_link_sigmoid_output :> "logit_link_sigmoid_output_dirichlet"
    @@ S_logit_link_sigmoid_product_output :>
           "logit_link_sigmoid_product_output_dirichlet"
    @@ S_probit_link_normcdf_output :> "probit_link_normcdf_output_dirichlet"
    @@ S_probit_link_sigmoid_output :> "probit_link_sigmoid_output_dirichlet"

\* The parameters of the registered functions next to (mean, var): those
\* without a default value, and all that may be passed by keyword.
RequiredParams(func) ==
    IF func \in {"softmax_mc", "logit_link_mc", "probit_link_mc"}
    THEN {"num_mc_samples"} ELSE {}
KeywordParams(func) ==
    IF func \in {"softmax_mc", "logit_link_mc", "probit_link_mc"}
    THEN {"num_mc_samples", "return_samples"}
    ELSE IF func = "softmax_laplace_bridge" THEN {"use_correction", "return_logits"}
    ELSE IF func \in {"softmax_mean_field", "logit_link_normcdf_output",
                      "logit_link_sigmoid_output", "probit_link_normcdf_output",
                      "probit_link_sigmoid_output"}
    THEN {"return_logits"}
    ELSE {}

\* A callable: a registered function, with the keywords functools.partial
\* has bound to it.
Function(func) ==
    [func |-> func, keywords |-> {}, num_mc_samples |-> 0, use_correction |-> FALSE]
partial_num_mc_samples(func, num_mc_samples) ==
    [func |-> func, keywords |-> {"num_mc_samples"},
     num_mc_samples |-> num_mc_samples, use_correction |-> FALSE]
partial_use_correction(func, use_correction) ==
    [func |-> func, keywords |-> {"use_correction"},
     num_mc_samples |-> 0, use_correction |-> use_correction]

\* callable(mean, var) binds every parameter and passes no unknown keyword.
CallableWithMeanVar(callable) ==
    /\ RequiredParams(callable.func) \subseteq callable.keywords
    /\ callable.keywords \subseteq KeywordParams(callable.func)

\* Variant of get_predictive: dict.get with softmax_mean_field as default.
get_predictive_default(dict, predictive, use_correction, num_mc_samples) ==
    LET predictive_fn == IF predictive \in DOMAIN dict THEN dict[predictive]
                         ELSE "softmax_mean_field"
    IN  IF endswith(predictive, S_mc)
        THEN Ok(partial_num_mc_samples(predictive_fn, num_mc_samples))
        ELSE IF predictive = S_softmax_laplace_bridge
        THEN Ok(partial_use_correction(predictive_fn, use_correction))
        ELSE Ok(Function(predictive_fn))

\* Variant of get_predictive: no keyword bound to the function.
get_predictive_unbound(dict, predictive, use_correction, num_mc_samples) ==
    IF predictive \notin DOMAIN dict THEN Raise("KeyError")
    ELSE Ok(Function(dict[predictive]))

\* Variant of get_predictive: use_correction bound for every softmax name.
get_predictive_softmax(dict, predictive, use_correction, num_mc_samples) ==
    IF predictive \notin DOMAIN dict THEN Raise("KeyError")
    ELSE LET predictive_fn == dict[predictive]
         IN  IF endswith(predictive, S_mc)
             THEN Ok(partial_num_mc_samples(predictive_fn, num_mc_samples))
             ELSE IF startswith(predictive, S_softmax)
             THEN Ok(partial_use_correction(predictive_fn, use_correction))
             ELSE Ok(Function(predictive_fn))

get_predictive(dict, predictive, use_correction, num_mc_samples) ==
    IF predictive \notin DOMAIN dict THEN Raise("KeyError")
    ELSE LET predictive_fn == dict[predictive]
         IN  IF endswith(predictive, S_mc)
             THEN Ok(partial_num_mc_samples(predictive_fn, num_mc_samples))
             ELSE IF predictive = S_softmax_laplace_bridge
             THEN Ok(partial_use_correction(predictive_fn, use_correction))
             ELSE Ok(Function(predictive_fn))

get_dirichlet(dict, dirichlet) ==
    IF dirichlet \notin DOMAIN dict THEN Raise("KeyError")
    ELSE Ok(Function(dict[dirichlet]))

get_likelihood(predictive) ==
    IF startswith(predictive, S_softmax) THEN Ok("softmax")
    ELSE IF startswith(predictive, S_probit) THEN Ok("normcdf")
    ELSE IF startswith(predictive, S_logit) THEN Ok("sigmoid")
    ELSE Raise("ValueError")

\* Variant of get_activation: softmax for every name without a known prefix.
get_activation_default(predictive) ==
    IF startswith(predictive, S_probit) THEN Ok("ndtr")
    ELSE IF startswith(predictive, S_logit) THEN Ok("F.sigmoid")
    ELSE Ok("partial(F.softmax, dim=-1)")

get_activation(predictive) ==
    IF startswith(predictive, S_softmax) THEN Ok("partial(F.softmax, dim=-1)")
    ELSE IF startswith(predictive, S_probit) THEN Ok("ndtr")
    ELSE IF startswith(predictive, S_logit) THEN Ok("F.sigmoid")
    ELSE Raise("ValueError")

get_log_activation(predictive) ==
    IF startswith(predictive, S_softmax) THEN Ok("partial(F.log_softmax, dim=-1)")
    ELSE IF startswith(predictive, S_probit) THEN Ok("log_ndtr")
    ELSE IF startswith(predictive, S_logit) THEN Ok("F.logsigmoid")
    ELSE Raise("ValueError")

\* ------------------------------------------------------------------------
\* probit/losses/normed_sigmoid_loss.py
\* ------------------------------------------------------------------------

\* The names bound at the top level of probit/utils/predictive.py.
PredictiveModuleNames ==
    {"math", "partial", "torch", "F", "sqrt", "owens_t", "Normal", "log_ndtr",
     "ndtr", "LAMBDA_0", "softmax_laplace_bridge", "softmax_mean_field",
     "softmax_mc", "logit_link_normcdf_output", "logit_link_sigmoid_output",
     "logit_link_mc", "probit_link_normcdf_output", "probit_link_sigmoid_output",
     "logit_link_normcdf_output_dirichlet", "logit_link_sigmoid_output_dirichlet",
     "logit_link_sigmoid_product_output_dirichlet",
     "probit_link_normcdf_output_dirichlet",
     "probit_link_sigmoid_output_dirichlet", "probit_link_mc",
     "probit_predictive", "beta_predictive", "dirichlet_predictive",
     "get_laplace_bridge_approximation", "probit_scale",
     "gaussian_pushforward_mean", "gaussian_pushforward_second_moment",
     "get_mom_beta_approximation", "get_mom_dirichlet_approximation",
     "diag_hessian_normalized_sigmoid", "diag_hessian_softmax",
     "diag_hessian_normalized_normcdf", "PREDICTIVE_DICT", "get_predictive",
     "DIRICHLET_DICT", "get_dirichlet", "get_likelihood", "get_activation",
     "get_log_activation"}

\* from <module> import <name>, names being what the module binds.
from_import(names, name) ==
    IF name \in names THEN Ok(name) ELSE Raise("ImportError")

\* Loading the loss module: its import from probit.utils.predictive, after
\* which the classes are defined with log_act_fn the imported function.
import_normed_sigmoid_loss ==
    from_import(PredictiveModuleNames, "log_normed_sigmoid")

\* NormedSigmoidNLLLossDerivatives._check_input_dims, of module.input0.dim()
check_input_dims(input0_dim) ==
    IF input0_dim # 2 THEN Raise("NotImplementedError") ELSE Ok(<<>>)

\* NormedSigmoidNLLLossDerivatives._verify_support
verify_support(input0_dim) == check_input_dims(input0_dim)

\* NormedSigmoidNLLLossDerivatives.hessian_is_psd()
hessian_is_psd == TRUE

\* What a caller of a member of the loss module gets: the module is loaded
\* first, and a load that raised leaves no class to call.
in_loss_module(result) ==
    IF Raised(import_normed_sigmoid_loss) THEN import_normed_sigmoid_loss
    ELSE result

\* ------------------------------------------------------------------------
\* probit/utils/collate.py
\*
\* A batch is a sequence of elements [type, sample, label]: type is "tuple"
\* or "list", the Python type of the element (sample, label).  A sample is
\* [type, data, items]: an "ndarray" or a "Tensor" of one dimension with the
\* integers data, a "tuple" of the array items, or a "list".
\* ------------------------------------------------------------------------

\* An integer stored into a torch.uint8 tensor.
uint8(v) == v % 256

\* len(sample)
len(sample) ==
    IF sample.type = "tuple" THEN Len(sample.items) ELSE Len(sample.data)

\* A row of torch.zeros(size, dtype=torch.uint8) after the array data was
\* added or copied into it: data is broadcast to the row, a row it cannot be
\* broadcast to is a RuntimeError.
filled_row(size, data) ==
    IF Len(data) = size THEN Ok([k \in 1..size |-> uint8(data[k])])
    ELSE IF Len(data) = 1 THEN Ok([k \in 1..size |-> uint8(data[1])])
    ELSE Raise("RuntimeError")

\* tensor[i] += torch.from_numpy(sample) for as_type "ndarray",
\* tensor[i].copy_(sample) for as_type "Tensor": a sample of another type is
\* a TypeError.
copied_row(size, sample, as_type) ==
    IF sample.type # as_type THEN Raise("TypeError")
    ELSE filled_row(size, sample.data)

\* Variant of targets_of: every target is the label of batch[0].
targets_of_first(batch) == [i \in 1..Len(batch) |-> batch[1].label]

\* np.array([b[1] for b in batch], dtype=np.int64)
targets_of(batch) == [i \in 1..Len(batch) |-> batch[i].label]

\* The first index of a loop at which the body raises, 0 if it never does.
first_raising(rows) ==
    IF \E i \in DOMAIN rows : Raised(rows[i])
    THEN CHOOSE i \in DOMAIN rows :
             Raised(rows[i]) /\ \A k \in 1..(i - 1) : ~Raised(rows[k])
    ELSE 0

\* The branches for batch[0][0] an ndarray (as_type "ndarray") and a
\* torch.Tensor (as_type "Tensor").
collate_arrays(batch, as_type) ==
    LET rows == [i \in 1..Len(batch) |->
                    copied_row(Len(batch[1].sample.data), batch[i].sample, as_type)]
    IN  IF first_raising(rows) # 0 THEN Raise(rows[first_raising(rows)].raised)
        ELSE Ok([tensor |-> [i \in 1..Len(batch) |-> rows[i].value],
                 targets |-> targets_of(batch)])

\* The body of the loop over i of the tuple branch: the rows it fills, one
\* for each j, or what it raises.
deinterleaved(batch, i) ==
    IF len(batch[i].sample) # Len(batch[1].sample.items) THEN Raise("ValueError")
    ELSE IF batch[i].sample.type # "tuple" THEN Raise("TypeError")
    ELSE LET rows == [j \in 1..Len(batch[1].sample.items) |->
                         copied_row(Len(batch[1].sample.items[1].data),
                                    batch[i].sample.items[j], "ndarray")]
         IN  IF first_raising(rows) # 0 THEN Raise(rows[first_raising(rows)].raised)
             ELSE Ok([j \in 1..Len(batch[1].sample.items) |-> rows[j].value])

\* Variant of collate_tuples: the items of a sample are kept next to each
\* other, row i * inner_tuple_size + j holds item j of sample i.
collate_tuples_interleaved(batch) ==
    IF Len(batch[1].sample.items) = 0 THEN Raise("IndexError")
    ELSE LET batch_size == Len(batch)
             inner_tuple_size == Len(batch[1].sample.items)
             filled == [i \in 1..batch_size |-> deinterleaved(batch, i)]
         IN  IF first_raising(filled) # 0
             THEN Raise(filled[first_raising(filled)].raised)
             ELSE Ok([tensor |->
                         [p \in 1..(batch_size * inner_tuple_size) |->
                             filled[((p - 1) \div inner_tuple_size) + 1].value[
                                 ((p - 1) % inner_tuple_size) + 1]],
                      targets |->
                         [p \in 1..(batch_size * inner_tuple_size) |->
                             batch[((p - 1) \div inner_tuple_size) + 1].label]])

\* The branch for batch[0][0] a tuple: row i + j * batch_size holds item j of
\* sample i.
collate_tuples(batch) ==
    IF Len(batch[1].sample.items) = 0 THEN Raise("IndexError")
    ELSE LET batch_size == Len(batch)
             inner_tuple_size == Len(batch[1].sample.items)
             filled == [i \in 1..batch_size |-> deinterleaved(batch, i)]
         IN  IF first_raising(filled) # 0
             THEN Raise(filled[first_raising(filled)].raised)
             ELSE Ok([tensor |->
                         [p \in 1..(batch_size * inner_tuple_size) |->
                             filled[((p - 1) % batch_size) + 1].value[
                                 ((p - 1) \div batch_size) + 1]],
                      targets |->
                         [p \in 1..(batch_size * inner_tuple_size) |->
                             batch[((p - 1) % batch_size) + 1].label]])

fast_collate(batch) ==
    IF Len(batch) = 0 THEN Raise("IndexError")
    ELSE IF batch[1].type # "tuple" THEN Raise("TypeError")
    ELSE IF batch[1].sample.type = "tuple" THEN collate_tuples(batch)
    ELSE IF batch[1].sample.type = "ndarray" THEN collate_arrays(batch, "ndarray")
    ELSE IF batch[1].sample.type = "Tensor" THEN collate_arrays(batch, "Tensor")
    ELSE Raise("ValueError")

\* ------------------------------------------------------------------------
\* The inputs of the model
\* ------------------------------------------------------------------------

\* Logit means: -20, -1, 0 and 1.
MeanGrid == {Fin(-2000, -2), Fin(-1000, -3), Zero, One}
\* Logit variances (var >= 0): 0, 0.5 and 2.
VarGrid == {Zero, Fin(5000, -4), Two}
MeanRows == [Classes -> MeanGrid]
VarRows == [Classes -> VarGrid]
LinkFunctions == {"probit", "logit", "cloglog"}
OutputFunctions == {S_normcdf, S_sigmoid, S_sigmoid_product, S_log_sigmoid, S_softmax}

\* Dirichlet parameters: 0, 0.5, 1, 3, 3e38, +inf, nan and -1.
ParamGrid ==
    {Zero, Fin(5000, -4), One, Fin(3000, -3), Fin(3000, 35), PosInf, NaN,
     Fin(-1000, -3)}
ParamRows == [Classes -> ParamGrid]
\* Beta parameters <<alpha, beta>>: 0, 1, 3 and +inf each.
BetaGrid == {Zero, One, Fin(3000, -3), PosInf}
BetaParamRows == [Classes -> BetaGrid \X BetaGrid]
\* Strategy names: the keys of the two registries, the names of the
\* *_dirichlet functions, and names that are no key.
StrategyNames ==
    {S_softmax_laplace_bridge, S_softmax_mean_field, S_softmax_mc,
     S_logit_link_normcdf_output, S_logit_link_sigmoid_output,
     S_logit_link_sigmoid_product_output, S_logit_link_mc,
     S_probit_link_normcdf_output, S_probit_link_sigmoid_output,
     S_probit_link_mc,
     S_logit_link_normcdf_output_dirichlet, S_logit_link_sigmoid_output_dirichlet,
     S_probit_link_normcdf_output_dirichlet,
     S_probit_link_sigmoid_output_dirichlet,
     S_softmax, S_probit, S_logit, S_mc, S_sigmoid, S_normcdf,
     S_softmax_mean_field_mc, S_probit_mc, S_sigmoid_mc, S_laplace_bridge,
     S_Softmax_mc, <<>>}
McSampleCounts == {1, 1000}

\* Arrays for fast_collate: uint8 images, an array with a value that is no
\* uint8, and an array of another shape.
Array(type, data) == [type |-> type, data |-> data, items |-> <<>>]
Tuple(items) == [type |-> "tuple", data |-> <<>>, items |-> items]
EmptyList == [type |-> "list", data |-> <<>>, items |-> <<>>]
NdArrays == {Array("ndarray", data) : data \in {<<7>>, <<9>>, <<300>>, <<7, 9>>}}
Tensors == {Array("Tensor", data) : data \in {<<7>>, <<300>>, <<7, 9>>}}
Tuples ==
    {Tuple(items) :
        items \in {<<>>, <<Array("ndarray", <<7>>)>>,
                   <<Array("ndarray", <<7>>), Array("ndarray", <<9>>)>>,
                   <<Array("ndarray", <<9>>), Array("ndarray", <<7>>)>>,
                   <<Array("ndarray", <<300>>)>>,
                   <<Array("Tensor", <<7>>)>>,
                   <<Array("ndarray", <<7, 9>>)>>,
                   <<Array("ndarray", <<7>>), Array("ndarray", <<7, 9>>)>>}}
Samples == NdArrays \cup Tensors \cup Tuples \cup {EmptyList}
Labels == {0, 1}
Elements ==
    [type : {"tuple"}, sample : Samples, label : Labels]
    \cup {[type |-> "list", sample |-> Array("ndarray", <<7>>), label |-> 0]}
Batches == UNION {[1..n -> Elements] : n \in 0..MaxBatch}

\* ------------------------------------------------------------------------
\* The state machine: a loaded module and the calls made to it
\* ------------------------------------------------------------------------

VARIABLES
    PREDICTIVE_DICT,   \* the module-level registry of predictive strategies
    DIRICHLET_DICT,    \* the module-level registry of Dirichlet strategies
    fn,                \* the function called last, "idle" between calls
    args,              \* its arguments
    ret                \* what it returned or raised

vars == <<PREDICTIVE_DICT, DIRICHLET_DICT, fn, args, ret>>

ZeroRow == [c \in Classes |-> Zero]
NoArgs ==
    [mean |-> ZeroRow, var |-> ZeroRow, link_function |-> "",
     output_function |-> <<>>, return_logits |-> FALSE,
     params |-> ZeroRow, beta_params |-> [c \in Classes |-> <<Zero, Zero>>],
     predictive |-> <<>>, use_correction |-> FALSE, num_mc_samples |-> 0,
     input0_dim |-> 0, batch |-> <<>>, target |-> 1]

Init ==
    /\ PREDICTIVE_DICT = PredictiveDictAtLoad
    /\ DIRICHLET_DICT = DirichletDictAtLoad
    /\ fn = "idle"
    /\ args = NoArgs
    /\ ret = Ok(<<>>)

CallProbitScale ==
    /\ fn = "idle"
    /\ \E l \in LinkFunctions :
        /\ fn' = "probit_scale"
        /\ args' = [NoArgs EXCEPT !.link_function = l]
        /\ ret' = probit_scale(l)
    /\ UNCHANGED <<PREDICTIVE_DICT, DIRICHLET_DICT>>

CallGaussianPushforwardMean ==
    /\ fn = "idle"
    /\ \E m \in MeanRows, v \in VarRows, l \in LinkFunctions, o \in OutputFunctions,
          rl \in BOOLEAN :
        /\ fn' = "gaussian_pushforward_mean"
        /\ args' = [NoArgs EXCEPT !.mean = m, !.var = v, !.link_function = l,
                                   !.output_function = o, !.return_logits = rl]
        /\ ret' = gaussian_pushforward_mean(m, v, l, o, rl)
    /\ UNCHANGED <<PREDICTIVE_DICT, DIRICHLET_DICT>>

CallGaussianPushforwardSecondMoment ==
    /\ fn = "idle"
    /\ \E m \in MeanRows, v \in VarRows, l \in LinkFunctions, o \in OutputFunctions :
        /\ fn' = "gaussian_pushforward_second_moment"
        /\ args' = [NoArgs EXCEPT !.mean = m, !.var = v, !.link_function = l,
                                   !.output_function = o]
        /\ ret' = gaussian_pushforward_second_moment(m, v, l, o)
    /\ UNCHANGED <<PREDICTIVE_DICT, DIRICHLET_DICT>>

CallProbitPredictive ==
    /\ fn = "idle"
    /\ \E m \in MeanRows, v \in VarRows, l \in LinkFunctions, o \in OutputFunctions,
          rl \in BOOLEAN :
        /\ fn' = "probit_predictive"
        /\ args' = [NoArgs EXCEPT !.mean = m, !.var = v, !.link_function = l,
                                   !.output_function = o, !.return_logits = rl]
        /\ ret' = probit_predictive(m, v, l, o, rl)
    /\ UNCHANGED <<PREDICTIVE_DICT, DIRICHLET_DICT>>

CallBetaPredictive ==
    /\ fn = "idle"
    /\ \E b \in BetaParamRows :
        /\ fn' = "beta_predictive"
        /\ args' = [NoArgs EXCEPT !.beta_params = b]
        /\ ret' = beta_predictive(b)
    /\ UNCHANGED <<PREDICTIVE_DICT, DIRICHLET_DICT>>

CallDirichletPredictive ==
    /\ fn = "idle"
    /\ \E p \in ParamRows :
        /\ fn' = "dirichlet_predictive"
        /\ args' = [NoArgs EXCEPT !.params = p]
        /\ ret' = dirichlet_predictive(p)
    /\ UNCHANGED <<PREDICTIVE_DICT, DIRICHLET_DICT>>

CallGetMomBetaApproximation ==
    /\ fn = "idle"
    /\ \E m \in MeanRows, v \in VarRows, l \in LinkFunctions, o \in OutputFunctions :
        /\ fn' = "get_mom_beta_approximation"
        /\ args' = [NoArgs EXCEPT !.mean = m, !.var = v, !.link_function = l,
                                   !.output_function = o]
        /\ ret' = get_mom_beta_approximation(m, v, l, o)
    /\ UNCHANGED <<PREDICTIVE_DICT, DIRICHLET_DICT>>

CallGetMomDirichletApproximation ==
    /\ fn = "idle"
    /\ \E m \in MeanRows, v \in VarRows, l \in LinkFunctions, o \in OutputFunctions :
        /\ fn' = "get_mom_dirichlet_approximation"
        /\ args' = [NoArgs EXCEPT !.mean = m, !.var = v, !.link_function = l,
                                   !.output_function = o]
        /\ ret' = get_mom_dirichlet_approximation(m, v, l, o)
    /\ UNCHANGED <<PREDICTIVE_DICT, DIRICHLET_DICT>>

\* Variant of CallGetPredictive: the partial application is stored back
\* into the registry.
CallGetPredictiveStoring ==
    /\ fn = "idle"
    /\ \E p \in StrategyNames, uc \in BOOLEAN, n \in McSampleCounts :
        /\ fn' = "get_predictive"
        /\ args' = [NoArgs EXCEPT !.predictive = p, !.use_correction = uc,
                                   !.num_mc_samples = n]
        /\ ret' = get_predictive(PREDICTIVE_DICT, p, uc, n)
        /\ PREDICTIVE_DICT' =
               IF p \in DOMAIN PREDICTIVE_DICT
               THEN [PREDICTIVE_DICT EXCEPT ![p] = "functools.partial"]
               ELSE PREDICTIVE_DICT
    /\ UNCHANGED DIRICHLET_DICT

CallGetPredictive ==
    /\ fn = "idle"
    /\ \E p \in StrategyNames, uc \in BOOLEAN, n \in McSampleCounts :
        /\ fn' = "get_predictive"
        /\ args' = [NoArgs EXCEPT !.predictive = p, !.use_correction = uc,
                                   !.num_mc_samples = n]
        /\ ret' = get_predictive(PREDICTIVE_DICT, p, uc, n)
    /\ UNCHANGED <<PREDICTIVE_DICT, DIRICHLET_DICT>>

CallGetDirichlet ==
    /\ fn = "idle"
    /\ \E p \in StrategyNames :
        /\ fn' = "get_dirichlet"
        /\ args' = [NoArgs EXCEPT !.predictive = p]
        /\ ret' = get_dirichlet(DIRICHLET_DICT, p)
    /\ UNCHANGED <<PREDICTIVE_DICT, DIRICHLET_DICT>>

CallGetLikelihood ==
    /\ fn = "idle"
    /\ \E p \in StrategyNames :
        /\ fn' = "get_likelihood"
        /\ args' = [NoArgs EXCEPT !.predictive = p]
        /\ ret' = get_likelihood(p)
    /\ UNCHANGED <<PREDICTIVE_DICT, DIRICHLET_DICT>>

CallGetActivation ==
    /\ fn = "idle"
    /\ \E p \in StrategyNames :
        /\ fn' = "get_activation"
        /\ args' = [NoArgs EXCEPT !.predictive = p]
        /\ ret' = get_activation(p)
    /\ UNCHANGED <<PREDICTIVE_DICT, DIRICHLET_DICT>>

CallGetLogActivation ==
    /\ fn = "idle"
    /\ \E p \in StrategyNames :
        /\ fn' = "get_log_activation"
        /\ args' = [NoArgs EXCEPT !.predictive = p]
        /\ ret' = get_log_activation(p)
    /\ UNCHANGED <<PREDICTIVE_DICT, DIRICHLET_DICT>>

\* The caller takes the result; the module keeps nothing of a call.
Return ==
    /\ fn # "idle"
    /\ fn' = "idle"
    /\ args' = NoArgs
    /\ ret' = Ok(<<>>)
    /\ UNCHANGED <<PREDICTIVE_DICT, DIRICHLET_DICT>>

Next ==
    \/ CallProbitScale
    \/ CallGaussianPushforwardMean
    \/ CallGaussianPushforwardSecondMoment
    \/ CallProbitPredictive
    \/ CallBetaPredictive
    \/ CallDirichletPredictive
    \/ CallGetMomBetaApproximation
    \/ CallGetMomDirichletApproximation
    \/ CallGetPredictive
    \/ CallGetDirichlet
    \/ CallGetLikelihood
    \/ CallGetActivation
    \/ CallGetLogActivation
    \/ Return

Spec == Init /\ [][Next]_vars

\* ------------------------------------------------------------------------
\* Calls of the predictive strategies, the registered functions of (mean, var)
\* ------------------------------------------------------------------------

CallSoftmaxMeanField ==
    /\ fn = "idle"
    /\ \E m \in MeanRows, v \in VarRows, rl \in BOOLEAN :
        /\ fn' = "softmax_mean_field"
        /\ args' = [NoArgs EXCEPT !.mean = m, !.var = v, !.return_logits = rl]
        /\ ret' = softmax_mean_field(m, v, rl)
    /\ UNCHANGED <<PREDICTIVE_DICT, DIRICHLET_DICT>>

\* fn is the name of the function called.
CallLinkOutputStrategy ==
    /\ fn = "idle"
    /\ \E func \in DOMAIN LinkOutputStrategies, m \in MeanRows, v \in VarRows,
          rl \in BOOLEAN :
        /\ fn' = func
        /\ args' = [NoArgs EXCEPT !.mean = m, !.var = v, !.return_logits = rl]
        /\ ret' = link_output_strategy(func, m, v, rl)
    /\ UNCHANGED <<PREDICTIVE_DICT, DIRICHLET_DICT>>

CallDirichletStrategy ==
    /\ fn = "idle"
    /\ \E func \in DOMAIN DirichletStrategies, m \in MeanRows, v \in VarRows :
        /\ fn' = func
        /\ args' = [NoArgs EXCEPT !.mean = m, !.var = v]
        /\ ret' = dirichlet_strategy(func, m, v)
    /\ UNCHANGED <<PREDICTIVE_DICT, DIRICHLET_DICT>>

\* logit is passed as mean.
CallDiagHessianNormalizedSigmoid ==
    /\ fn = "idle"
    /\ \E logit \in MeanRows, target \in Classes :
        /\ fn' = "diag_hessian_normalized_sigmoid"
        /\ args' = [NoArgs EXCEPT !.mean = logit, !.target = target]
        /\ ret' = diag_hessian_normalized_sigmoid(logit, target)
    /\ UNCHANGED <<PREDICTIVE_DICT, DIRICHLET_DICT>>

NextStrategies ==
    \/ CallSoftmaxMeanField
    \/ CallLinkOutputStrategy
    \/ CallDirichletStrategy
    \/ CallGetMomDirichletApproximation
    \/ CallDiagHessianNormalizedSigmoid
    \/ Return

SpecStrategies == Init /\ [][NextStrategies]_vars

\* ------------------------------------------------------------------------
\* Calls of the collation utility and of the loss module
\* ------------------------------------------------------------------------

CallFastCollate ==
    /\ fn = "idle"
    /\ \E batch \in Batches :
        /\ fn' = "fast_collate"
        /\ args' = [NoArgs EXCEPT !.batch = batch]
        /\ ret' = fast_collate(batch)
    /\ UNCHANGED <<PREDICTIVE_DICT, DIRICHLET_DICT>>

CallVerifySupport ==
    /\ fn = "idle"
    /\ \E input0_dim \in 0..MaxDim :
        /\ fn' = "_verify_support"
        /\ args' = [NoArgs EXCEPT !.input0_dim = input0_dim]
        /\ ret' = in_loss_module(verify_support(input0_dim))
    /\ UNCHANGED <<PREDICTIVE_DICT, DIRICHLET_DICT>>

ImportNormedSigmoidLoss ==
    /\ fn = "idle"
    /\ fn' = "import probit.losses.normed_sigmoid_loss"
    /\ args' = NoArgs
    /\ ret' = import_normed_sigmoid_loss
    /\ UNCHANGED <<PREDICTIVE_DICT, DIRICHLET_DICT>>

NextModules ==
    \/ CallFastCollate
    \/ CallVerifySupport
    \/ ImportNormedSigmoidLoss
    \/ Return

SpecModules == Init /\ [][NextModules]_vars

\* ------------------------------------------------------------------------
\* Properties
\* ------------------------------------------------------------------------

\* Tolerances of the four-digit arithmetic: 1e-3.
SumTol == Fin(1000, -6)
MomentTol == Fin(1000, -6)
ExampleTol == Fin(1000, -6)

RowSumsToOne(row) == Near(FSum(row), One, SumTol)
PositiveFinite(x) == IsFin(x) /\ x.m > 0
ValidLinks == {"probit", "logit"}
ValidOutputs == {S_normcdf, S_sigmoid, S_sigmoid_product}
PushforwardFunctions ==
    {"gaussian_pushforward_mean", "gaussian_pushforward_second_moment"}
LinkFunctionUsers ==
    {"probit_scale", "gaussian_pushforward_mean",
     "gaussian_pushforward_second_moment", "probit_predictive",
     "get_mom_beta_approximation", "get_mom_dirichlet_approximation"}

\* C1: for every valid input (var >= 0, positive finite parameters) each row
\* returned by probit_predictive (without return_logits), dirichlet_predictive
\* and beta_predictive sums to 1 within floating tolerance.
RowSumInvariant ==
    /\ (fn = "probit_predictive" /\ ~Raised(ret) /\ ~args.return_logits)
           => RowSumsToOne(ret.value)
    /\ (fn = "dirichlet_predictive"
        /\ \A c \in Classes : PositiveFinite(args.params[c]))
           => RowSumsToOne(ret.value)
    /\ (fn = "beta_predictive"
        /\ \A c \in Classes : PositiveFinite(args.beta_params[c][1])
                              /\ PositiveFinite(args.beta_params[c][2]))
           => RowSumsToOne(ret.value)

\* The quotient params / sum(params) of the row passed to dirichlet_predictive.
Quotient(c) == FDiv(args.params[c], FSum(args.params))
NanClasses == {c \in Classes : IsNan(Quotient(c))}
\* x is 1/k up to rounding.
IsOneOver(x, k) == Near(FMul(x, FromInt(k)), One, SumTol)

\* C2: dirichlet_predictive repairs degenerate rows: a row that is all +inf
\* becomes the uniform row 1/C; in a row whose quotient has k >= 1 nan entries
\* every nan entry becomes 1/k and every other entry 0, so the row sums to 1;
\* one finite parameter among +inf ones gives 0 for it and 1/(C-1) for the rest.
DirichletRepair ==
    fn = "dirichlet_predictive" =>
        /\ (\A c \in Classes : args.params[c] = PosInf)
               => \A c \in Classes : IsOneOver(ret.value[c], NumClasses)
        /\ NanClasses # {} =>
               /\ \A c \in NanClasses :
                      IsOneOver(ret.value[c], Cardinality(NanClasses))
               /\ \A c \in Classes \ NanClasses : ret.value[c] = Zero
               /\ RowSumsToOne(ret.value)
        /\ \A f \in Classes :
               (/\ IsFin(args.params[f])
                /\ \A c \in Classes \ {f} : args.params[c] = PosInf)
               => /\ ret.value[f] = Zero
                  /\ \A c \in Classes \ {f} :
                         IsOneOver(ret.value[c], NumClasses - 1)

\* A row with one finite parameter and +inf elsewhere has been repaired.
DirichletRepairWitness ==
    /\ fn = "dirichlet_predictive"
    /\ args.params[1] = One
    /\ \A c \in Classes \ {1} : args.params[c] = PosInf
    /\ ret.value[1] = Zero
    /\ \A c \in Classes \ {1} : IsOneOver(ret.value[c], NumClasses - 1)

\* C3: get_predictive and get_dirichlet fail with an error, and return no
\* callable, for every name that is no key of their registry, whatever
\* use_correction and num_mc_samples are.
UnknownNameRaises ==
    /\ (fn = "get_predictive" /\ args.predictive \notin DOMAIN PREDICTIVE_DICT)
           => ret = Raise("KeyError")
    /\ (fn = "get_dirichlet" /\ args.predictive \notin DOMAIN DIRICHLET_DICT)
           => ret = Raise("KeyError")

UnknownNameWitness ==
    /\ fn = "get_predictive"
    /\ args.predictive = S_softmax_mean_field_mc
    /\ args.use_correction
    /\ ret = Raise("KeyError")

\* The three accessors applied to the argument of the call of this state, the
\* called one taken from what the call returned.
AccessorTriple ==
    << IF fn = "get_likelihood" THEN ret ELSE get_likelihood(args.predictive),
       IF fn = "get_activation" THEN ret ELSE get_activation(args.predictive),
       IF fn = "get_log_activation" THEN ret
       ELSE get_log_activation(args.predictive) >>
FamilyOf(name) ==
    IF startswith(name, S_softmax)
    THEN << Ok("softmax"), Ok("partial(F.softmax, dim=-1)"),
            Ok("partial(F.log_softmax, dim=-1)") >>
    ELSE IF startswith(name, S_probit)
    THEN << Ok("normcdf"), Ok("ndtr"), Ok("log_ndtr") >>
    ELSE IF startswith(name, S_logit)
    THEN << Ok("sigmoid"), Ok("F.sigmoid"), Ok("F.logsigmoid") >>
    ELSE << Raise("ValueError"), Raise("ValueError"), Raise("ValueError") >>

\* C4: get_likelihood, get_activation and get_log_activation take the same
\* prefix branch for every name: (softmax, softmax, log_softmax) for prefix
\* softmax, (normcdf, ndtr, log_ndtr) for probit, (sigmoid, sigmoid,
\* logsigmoid) for logit, and all three raise for any other name.
AccessorsConsistent ==
    fn \in {"get_likelihood", "get_activation", "get_log_activation"}
        => AccessorTriple = FamilyOf(args.predictive)

AccessorsWitness ==
    /\ fn = "get_log_activation"
    /\ args.predictive = S_probit_mc
    /\ ret = Ok("log_ndtr")

\* C5: a link function outside {probit, logit} is an error for probit_scale,
\* the two pushforward functions, probit_predictive and both fitters, for
\* every output function, with or without return_logits.
InvalidLinkRaises ==
    (fn \in LinkFunctionUsers /\ args.link_function \notin ValidLinks)
        => ret = Raise("NotImplementedError")

InvalidLinkWitness ==
    /\ fn = "get_mom_dirichlet_approximation"
    /\ args.link_function = "cloglog"
    /\ args.output_function = S_sigmoid
    /\ ret = Raise("NotImplementedError")

\* C6: for every output_function that is not exactly normcdf, sigmoid or
\* sigmoid_product, gaussian_pushforward_mean and
\* gaussian_pushforward_second_moment fail with an error.
InvalidOutputRaises ==
    (fn \in PushforwardFunctions /\ args.output_function \notin ValidOutputs)
        => Raised(ret)

\* s * (1 - s) * (1 - 1 / sqrt(1 + scale * var)) + s**2 for the class c of the
\* call of this state, s being the logit/sigmoid pushforward mean.
SigmoidProductExpected(c) ==
    LET s == gaussian_pushforward_mean(args.mean, args.var, "logit", S_sigmoid,
                                       FALSE).value[c]
        root == FSqrt(FAdd(One, FMul(LAMBDA_0, args.var[c])))
    IN  FAdd(FMul(FMul(s, FSub(One, s)), FSub(One, FDiv(One, root))), FMul(s, s))

\* C7: output sigmoid_product with link probit is an error of
\* gaussian_pushforward_second_moment, so both fitters return nothing for it;
\* with link logit the call returns M2 = s - s*(1-s)/sqrt(1 + scale*var).
SigmoidProductNeedsLogit ==
    args.output_function = S_sigmoid_product =>
        /\ (fn = "gaussian_pushforward_second_moment"
            /\ args.link_function = "probit")
               => ret = Raise("NotImplementedError")
        /\ (fn \in {"get_mom_dirichlet_approximation", "get_mom_beta_approximation"}
            /\ args.link_function = "probit")
               => Raised(ret)
        /\ (fn = "gaussian_pushforward_second_moment"
            /\ args.link_function = "logit")
               => /\ ~Raised(ret)
                  /\ \A c \in Classes :
                         Near(ret.value[c], SigmoidProductExpected(c), MomentTol)

SigmoidProductWitness ==
    /\ fn = "gaussian_pushforward_second_moment"
    /\ args.output_function = S_sigmoid_product
    /\ args.link_function = "logit"
    /\ \A c \in Classes : args.var[c] = Two /\ args.mean[c] = One
    /\ ~Raised(ret)

\* The names the registry is documented to hold.
LinkOutputNames ==
    {S_logit_link_normcdf_output, S_logit_link_sigmoid_output,
     S_probit_link_normcdf_output, S_probit_link_sigmoid_output}
DirichletSuffixedNames ==
    {S_logit_link_normcdf_output_dirichlet, S_logit_link_sigmoid_output_dirichlet,
     S_probit_link_normcdf_output_dirichlet, S_probit_link_sigmoid_output_dirichlet}
PlainNames ==
    {S_softmax_laplace_bridge, S_softmax_mean_field, S_softmax_mc,
     S_logit_link_mc, S_probit_link_mc} \cup LinkOutputNames
DirichletFunctions ==
    {"logit_link_normcdf_output_dirichlet", "logit_link_sigmoid_output_dirichlet",
     "probit_link_normcdf_output_dirichlet", "probit_link_sigmoid_output_dirichlet"}

\* C8 as stated: get_predictive resolves every listed name, the four names
\* with the _dirichlet suffix included, to a callable of (mean, var).
RegistryResolvesListedNames ==
    (fn = "get_predictive"
     /\ args.predictive \in PlainNames \cup DirichletSuffixedNames)
        => ~Raised(ret) /\ CallableWithMeanVar(ret.value)

\* C8: get_predictive resolves softmax_laplace_bridge, softmax_mean_field,
\* softmax_mc, {logit,probit}_link_{normcdf,sigmoid}_output and
\* {logit,probit}_link_mc to a callable of exactly (mean, var); the _dirichlet
\* functions are resolved by get_dirichlet under the names without the suffix,
\* and a name with the _dirichlet suffix is a KeyError of both lookups.
RegistryResolvesKeys ==
    /\ (fn = "get_predictive" /\ args.predictive \in PlainNames)
           => ~Raised(ret) /\ CallableWithMeanVar(ret.value)
    /\ (fn = "get_dirichlet" /\ args.predictive \in LinkOutputNames)
           => /\ ~Raised(ret)
              /\ ret.value.func \in DirichletFunctions
              /\ CallableWithMeanVar(ret.value)
    /\ (fn \in {"get_predictive", "get_dirichlet"}
        /\ args.predictive \in DirichletSuffixedNames)
           => ret = Raise("KeyError")

RegistryWitness ==
    /\ fn = "get_predictive"
    /\ args.predictive = S_probit_link_mc
    /\ ~Raised(ret)
    /\ ret.value.func = "probit_link_mc"
    /\ "num_mc_samples" \in ret.value.keywords

\* The call of this state is on the input of the end-to-end example.
IsExample ==
    /\ args.mean = << One, FNeg(One) >>
    /\ args.var = << Fin(5000, -4), Fin(5000, -4) >>
    /\ args.link_function = "probit"
    /\ args.output_function = S_normcdf
\* What the example's three steps returned is the pair (first, 1 - first), the
\* logits being (logit, -logit).
ExampleReturns(logit, first) ==
    IsExample =>
        /\ (fn = "gaussian_pushforward_mean" /\ args.return_logits)
               => /\ Near(ret.value[1], logit, ExampleTol)
                  /\ Near(ret.value[2], FNeg(logit), ExampleTol)
        /\ (fn \in {"gaussian_pushforward_mean", "probit_predictive"}
            /\ ~args.return_logits)
               => /\ Near(ret.value[1], first, ExampleTol)
                  /\ Near(ret.value[2], FSub(One, first), ExampleTol)

\* C9 as stated: on mean [[1, -1]], var [[0.5, 0.5]], probit, normcdf the
\* logits are [0.632, -0.632] and M1 and probit_predictive are
\* [0.7365, 0.2635], to 1e-3.
ExampleAsStated == ExampleReturns(Fin(6320, -4), Fin(7365, -4))

\* C9: on mean [[1, -1]], var [[0.5, 0.5]], probit, normcdf the logits are
\* mean / sqrt(1 + 0.5) = [0.8165, -0.8165] and M1 and probit_predictive are
\* [0.7929, 0.2071], to 1e-3.
ExampleAsComputed == ExampleReturns(Fin(8165, -4), Fin(7929, -4))

ExampleWitness ==
    /\ fn = "probit_predictive"
    /\ IsExample
    /\ ~args.return_logits
    /\ Near(ret.value[1], Fin(7929, -4), ExampleTol)

\* The first moment of the call of this state.
FirstMoment ==
    gaussian_pushforward_mean(args.mean, args.var, args.link_function,
                              args.output_function, FALSE).value
Ordered(M1, M2) ==
    /\ FLe(FSub(FMul(M1, M1), MomentTol), M2)
    /\ FLe(M2, FAdd(M1, MomentTol))

\* C10: for every mean, every var >= 0 and every supported (link, output)
\* pair, M1^2 <= M2 <= M1 up to tolerance, in the Owen's T branch (normcdf,
\* sigmoid) and in the sigmoid_product branch.
MomentOrdering ==
    (fn = "gaussian_pushforward_second_moment" /\ ~Raised(ret)
     /\ args.output_function \in ValidOutputs)
        => \A c \in Classes :
               Ordered(FirstMoment[c], ret.value[c])

MomentOrderingWitness ==
    /\ fn = "gaussian_pushforward_second_moment"
    /\ args.link_function = "logit"
    /\ args.output_function = S_sigmoid
    /\ args.mean[1] = One /\ args.var[1] = Two
    /\ ~Raised(ret)
    /\ FLt(FMul(FirstMoment[1], FirstMoment[1]), ret.value[1])
    /\ FLt(ret.value[1], FirstMoment[1])

\* The call of this state is a Dirichlet fit; the link and output function it
\* fits with, and the moments M1, M2 and the scale S = max(sum(M1), 1) of it.
IsDirichletFit ==
    fn = "get_mom_dirichlet_approximation" \/ fn \in DOMAIN DirichletStrategies
FitLink ==
    IF fn \in DOMAIN DirichletStrategies THEN DirichletStrategies[fn][1]
    ELSE args.link_function
FitOutput ==
    IF fn \in DOMAIN DirichletStrategies THEN DirichletStrategies[fn][2]
    ELSE args.output_function
FitM1 ==
    gaussian_pushforward_mean(args.mean, args.var, FitLink, FitOutput, FALSE).value
FitM2 ==
    gaussian_pushforward_second_moment(args.mean, args.var, FitLink, FitOutput).value
\* Class c has a positive implied variance and a positive numerator.
WellDefinedRatio(M1, M2, S, c) ==
    /\ FLt(Zero, FSub(M2[c], FMul(M1[c], M1[c])))
    /\ FLt(Zero, FSub(FMul(M1[c], S), M2[c]))
NonDegenerateFit ==
    /\ IsDirichletFit
    /\ ~Raised(ret)
    /\ \A c \in Classes :
           WellDefinedRatio(FitM1, FitM2, FMaximum(FSum(FitM1), One), c)

\* C11 as stated: every row returned by get_mom_dirichlet_approximation and by
\* the five *_dirichlet functions sums to 1, for every non-degenerate input.
DirichletFitRowsSumToOne ==
    NonDegenerateFit => RowSumsToOne(ret.value)

\* The row a Dirichlet fit returned is a positive finite row proportional to
\* M1: divided by its sum it is M1 / sum(M1).
FitIsParametersOf(M1) ==
    /\ \A c \in Classes : PositiveFinite(ret.value[c])
    /\ \A c \in Classes :
           Near(FDiv(ret.value[c], FSum(ret.value)), FDiv(M1[c], FSum(M1)), SumTol)

\* C11: for every non-degenerate input get_mom_dirichlet_approximation and
\* the five *_dirichlet functions return Dirichlet parameters P * M1 / S: a
\* positive finite row proportional to M1, whose sum is not 1 in general.
DirichletFitIsParameters ==
    NonDegenerateFit => FitIsParametersOf(FitM1)

DirichletFitWitness ==
    /\ fn = "probit_link_normcdf_output_dirichlet"
    /\ NonDegenerateFit
    /\ FLt(Two, FSum(ret.value))
    /\ FitIsParametersOf(FitM1)

\* Class c of the fit of this state has no positive implied variance.
DegenerateClass(c) == ~FLt(Zero, FSub(FitM2[c], FMul(FitM1[c], FitM1[c])))

\* C12: get_mom_dirichlet_approximation detects a class with
\* M2_c - M1_c^2 <= 0 before averaging the log-ratios: the undefined ratio of
\* that class is not folded into the mean LP, so the entry of a class whose
\* own ratio is well defined stays finite.
DegenerateClassDetected ==
    (IsDirichletFit /\ ~Raised(ret) /\ \E c \in Classes : DegenerateClass(c))
        => \A d \in Classes :
               WellDefinedRatio(FitM1, FitM2, FMaximum(FSum(FitM1), One), d)
                   => IsFin(ret.value[d])

\* C13: _verify_support raises NotImplementedError whenever module.input0 has
\* a number of dimensions other than 2, lower or higher, and raises nothing
\* when it has exactly 2.
OnlyRankTwoSupported ==
    fn = "_verify_support" =>
        IF args.input0_dim = 2 THEN ret.raised = "None"
        ELSE ret.raised = "NotImplementedError"

\* The batch of this state is B >= 1 (array, label) tuples, the arrays all
\* of the given type and of one shape.
IsArrayBatch(type) ==
    /\ Len(args.batch) >= 1
    /\ \A i \in 1..Len(args.batch) :
           /\ args.batch[i].type = "tuple"
           /\ args.batch[i].sample.type = type
           /\ Len(args.batch[i].sample.data) = Len(args.batch[1].sample.data)
ArrayBatch == IsArrayBatch("ndarray") \/ IsArrayBatch("Tensor")
Uint8Valued ==
    \A i \in 1..Len(args.batch) :
        \A k \in 1..Len(args.batch[i].sample.data) :
            args.batch[i].sample.data[k] \in 0..255
\* The call returned the samples and the labels, in the order of the batch.
ContentAndOrderPreserved ==
    /\ ret.raised = "None"
    /\ DOMAIN ret.value.tensor = 1..Len(args.batch)
    /\ DOMAIN ret.value.targets = 1..Len(args.batch)
    /\ \A i \in 1..Len(args.batch) :
           /\ ret.value.tensor[i] = args.batch[i].sample.data
           /\ ret.value.targets[i] = args.batch[i].label

\* C14 as stated: for every batch of B (array, integer label) pairs, numpy
\* arrays or torch tensors, tensor[i] is the i-th sample and targets[i] the
\* i-th label.
CollatePreservesArrays ==
    (fn = "fast_collate" /\ ArrayBatch) => ContentAndOrderPreserved

\* C14: for every batch of B (array, integer label) pairs whose arrays hold
\* uint8 values (0..255), numpy arrays or torch tensors, tensor[i] is the
\* i-th sample and targets[i] the i-th label.
CollatePreservesUint8Arrays ==
    (fn = "fast_collate" /\ ArrayBatch /\ Uint8Valued) => ContentAndOrderPreserved

CollatePreservesWitness ==
    /\ fn = "fast_collate"
    /\ Len(args.batch) = 2
    /\ args.batch[1].sample = Array("Tensor", <<7, 9>>)
    /\ args.batch[2].sample = Array("Tensor", <<7, 9>>)
    /\ args.batch[1].label = 1
    /\ args.batch[2].label = 0
    /\ ArrayBatch
    /\ ContentAndOrderPreserved

\* batch[0] is a tuple whose sample is a tuple, and sample i is the first of
\* another length.
FirstMismatch(i) ==
    /\ args.batch[1].type = "tuple"
    /\ args.batch[1].sample.type = "tuple"
    /\ len(args.batch[i].sample) # len(args.batch[1].sample)
    /\ \A k \in 1..(i - 1) : len(args.batch[k].sample) = len(args.batch[1].sample)

\* C15: batch[0] no tuple raises TypeError; batch[0][0] a tuple and some
\* batch[i][0] of another length raises ValueError, wherever the first
\* mismatch is; batch[0][0] neither tuple, ndarray nor tensor raises
\* ValueError.
MalformedBatchRaises ==
    (fn = "fast_collate" /\ Len(args.batch) >= 1) =>
        /\ args.batch[1].type # "tuple" => ret.raised = "TypeError"
        /\ (\E i \in 1..Len(args.batch) : FirstMismatch(i))
               => ret.raised = "ValueError"
        /\ (/\ args.batch[1].type = "tuple"
            /\ args.batch[1].sample.type \notin {"tuple", "ndarray", "Tensor"})
               => ret.raised = "ValueError"

\* C16: after any sequence of calls of get_predictive, get_dirichlet,
\* get_likelihood, get_activation and get_log_activation, successful or not,
\* PREDICTIVE_DICT and DIRICHLET_DICT hold the mapping they had at load time.
RegistriesImmutable ==
    /\ PREDICTIVE_DICT = PredictiveDictAtLoad
    /\ DIRICHLET_DICT = DirichletDictAtLoad

RegistriesImmutableWitness ==
    /\ fn = "get_predictive"
    /\ args.predictive = S_probit_link_mc
    /\ ret.raised = "None"
    /\ ret.value.keywords = {"num_mc_samples"}
    /\ PREDICTIVE_DICT[S_probit_link_mc] = "probit_link_mc"
    /\ RegistriesImmutable

\* A row divided by its sum, in float64.
RECURSIVE Sum64To(_, _)
Sum64To(row, n) ==
    IF n = 0 THEN Zero ELSE FAddT(Sum64To(row, n - 1), row[n], "float64")
RowNormalized(row) ==
    [c \in Classes |-> FDivT(row[c], Sum64To(row, NumClasses), "float64")]
\* What each of the three strategies collapses to at var = 0.
ZeroVarianceStrategies ==
    {"softmax_mean_field", "probit_link_normcdf_output", "logit_link_sigmoid_output"}
PointMassPredictive ==
    IF fn = "softmax_mean_field" THEN softmax(args.mean)
    ELSE IF fn = "probit_link_normcdf_output"
    THEN RowNormalized([c \in Classes |-> ndtr(To(args.mean[c], "float64"))])
    ELSE RowNormalized([c \in Classes |-> sigmoid(args.mean[c])])

\* C17: with var = 0, softmax_mean_field returns softmax(mean),
\* probit_link_normcdf_output the row-normalized ndtr(mean) and
\* logit_link_sigmoid_output the row-normalized sigmoid(mean); with
\* return_logits each of the three returns exactly mean.
ZeroVarianceCollapse ==
    (fn \in ZeroVarianceStrategies /\ args.var = ZeroRow) =>
        /\ ret.raised = "None"
        /\ IF args.return_logits THEN ret.value = args.mean
           ELSE \A c \in Classes :
                    Near(ret.value[c], PointMassPredictive[c], SumTol)

\* The row probit_predictive divides: the pushforward mean over its row sum.
NormalizedPushforward ==
    LET predictives == gaussian_pushforward_mean(args.mean, args.var,
                           args.link_function, args.output_function, FALSE).value
    IN  [c \in Classes |-> FDiv(predictives[c], FSum(predictives))]

\* C19: probit_predictive floors the normalized row at 1e-10 as its last
\* step: every entry of a returned probability row is >= 1e-10, and an entry
\* differs from its normalized value only if that value is below 1e-10.
FloorAppliedLast ==
    (fn = "probit_predictive" /\ ret.raised = "None" /\ ~args.return_logits) =>
        \A c \in Classes :
            /\ FLe(PredictiveFloor, ret.value[c])
            /\ ret.value[c] # NormalizedPushforward[c]
                   => FLt(NormalizedPushforward[c], PredictiveFloor)

\* C20: get_predictive binds num_mc_samples exactly for the registered names
\* ending in 'mc', use_correction exactly for softmax_laplace_bridge, and
\* returns the registered function unchanged for every other registered
\* name, whatever use_correction and num_mc_samples are.
BindsByStrategyKind ==
    (fn = "get_predictive" /\ ret.raised = "None") =>
        IF args.predictive \in {S_softmax_mc, S_logit_link_mc, S_probit_link_mc}
        THEN ret.value = [func |-> PREDICTIVE_DICT[args.predictive],
                          keywords |-> {"num_mc_samples"},
                          num_mc_samples |-> args.num_mc_samples,
                          use_correction |-> FALSE]
        ELSE IF args.predictive = S_softmax_laplace_bridge
        THEN ret.value = [func |-> PREDICTIVE_DICT[args.predictive],
                          keywords |-> {"use_correction"},
                          num_mc_samples |-> 0,
                          use_correction |-> args.use_correction]
        ELSE ret.value = [func |-> PREDICTIVE_DICT[args.predictive],
                          keywords |-> {},
                          num_mc_samples |-> 0,
                          use_correction |-> FALSE]

BindsByStrategyKindWitness ==
    /\ fn = "get_predictive"
    /\ args.predictive = S_softmax_mean_field
    /\ args.use_correction
    /\ args.num_mc_samples > 0
    /\ ret = Ok(Function("softmax_mean_field"))

\* C18: the loss module loads, so that NormedSigmoidNLLLoss can be
\* constructed with the log_normed_sigmoid that the module obtains from
\* probit.utils.predictive.
LossModuleLoads ==
    fn = "import probit.losses.normed_sigmoid_loss"
        => ret = Ok("log_normed_sigmoid")

\* The batch of this state is B >= 1 (tuple, label) tuples, every tuple of
\* K >= 1 arrays of the given types and of one shape.
IsTupleBatch(types) ==
    /\ Len(args.batch) >= 1
    /\ \A i \in 1..Len(args.batch) :
           /\ args.batch[i].type = "tuple"
           /\ args.batch[i].sample.type = "tuple"
           /\ Len(args.batch[i].sample.items) = Len(args.batch[1].sample.items)
           /\ Len(args.batch[i].sample.items) >= 1
           /\ \A j \in 1..Len(args.batch[i].sample.items) :
                  /\ args.batch[i].sample.items[j].type \in types
                  /\ Len(args.batch[i].sample.items[j].data)
                         = Len(args.batch[1].sample.items[1].data)
TupleItemsUint8 ==
    \A i \in 1..Len(args.batch) :
        \A j \in 1..Len(args.batch[i].sample.items) :
            \A k \in 1..Len(args.batch[i].sample.items[j].data) :
                args.batch[i].sample.items[j].data[k] \in 0..255
\* Output index i + j * B (i, j counted from 0) holds array j and the label of
\* sample i, and every output index is i + j * B for exactly one (i, j).
DeinterleavedByPosition ==
    LET B == Len(args.batch)
        K == Len(args.batch[1].sample.items)
    IN  /\ ret.raised = "None"
        /\ DOMAIN ret.value.tensor = 1..(B * K)
        /\ DOMAIN ret.value.targets = 1..(B * K)
        /\ \A i \in 0..(B - 1), j \in 0..(K - 1) :
               /\ ret.value.tensor[i + j * B + 1]
                      = args.batch[i + 1].sample.items[j + 1].data
               /\ ret.value.targets[i + j * B + 1] = args.batch[i + 1].label
        /\ \A p \in 0..(B * K - 1) :
               Cardinality({ij \in (0..(B - 1)) \X (0..(K - 1)) :
                               ij[1] + ij[2] * B = p}) = 1

\* C21 as stated: in the tuple branch, for B samples each carrying a tuple
\* of K arrays, output index i + j*B holds array j of sample i and the label
\* of sample i, and (i, j) -> i + j*B is a bijection onto 0..B*K-1.
TupleBranchDeinterleaves ==
    (fn = "fast_collate" /\ IsTupleBatch({"ndarray", "Tensor"}))
        => DeinterleavedByPosition

\* C21: in the tuple branch, for B samples each carrying a tuple of K numpy
\* arrays with values in 0..255, output index i + j*B holds array j of sample
\* i and the label of sample i, and (i, j) -> i + j*B is a bijection onto
\* 0..B*K-1.
TupleBranchDeinterleavesUint8 ==
    (fn = "fast_collate" /\ IsTupleBatch({"ndarray"}) /\ TupleItemsUint8)
        => DeinterleavedByPosition

TupleBranchWitness ==
    /\ fn = "fast_collate"
    /\ Len(args.batch) = 2
    /\ args.batch[1].sample = Tuple(<<Array("ndarray", <<7>>), Array("ndarray", <<9>>)>>)
    /\ args.batch[2].sample = Tuple(<<Array("ndarray", <<9>>), Array("ndarray", <<7>>)>>)
    /\ args.batch[1].label = 0
    /\ args.batch[2].label = 1
    /\ ret.raised = "None"
    /\ ret.value.tensor = << <<7>>, <<9>>, <<9>>, <<7>> >>
    /\ ret.value.targets = <<0, 1, 0, 1>>
    /\ DeinterleavedByPosition

\* params / sum(params) of the call of this state.
ParamsQuotient == [c \in Classes |-> FDiv(args.params[c], FSum(args.params))]

\* C24: dirichlet_predictive maps a parameter row that is entirely zero to
\* the uniform row 1/C, and returns a row whose quotient params / sum(params)
\* contains no nan exactly as that quotient.
ZeroRowIsUniform ==
    fn = "dirichlet_predictive" =>
        /\ ret.raised = "None"
        /\ args.params = ZeroRow
               => \A c \in Classes : /\ IsNan(ParamsQuotient[c])
                                     /\ ret.value[c] = FDiv(One, FromInt(NumClasses))
        /\ (\A c \in Classes : ~IsNan(ParamsQuotient[c]))
               => ret.value = ParamsQuotient

ZeroRowIsUniformWitness ==
    /\ fn = "dirichlet_predictive"
    /\ args.params = ZeroRow
    /\ \A c \in Classes : ret.value[c] = FDiv(One, FromInt(NumClasses))

\* C25: every key of DIRICHLET_DICT is a key of PREDICTIVE_DICT and every key
\* of either starts with 'softmax', 'probit' or 'logit': a name get_dirichlet
\* accepts is accepted by get_predictive, and a name get_predictive accepts
\* raises no ValueError in get_likelihood, get_activation and
\* get_log_activation.
NameAcceptanceNested ==
    /\ DOMAIN DIRICHLET_DICT \subseteq DOMAIN PREDICTIVE_DICT
    /\ \A key \in DOMAIN PREDICTIVE_DICT \cup DOMAIN DIRICHLET_DICT :
           \/ startswith(key, S_softmax)
           \/ startswith(key, S_probit)
           \/ startswith(key, S_logit)
    /\ (fn = "get_dirichlet" /\ ret.raised = "None")
           => \A uc \in BOOLEAN, n \in McSampleCounts :
                  get_predictive(PREDICTIVE_DICT, args.predictive, uc, n).raised
                      = "None"
    /\ (/\ fn \in {"get_likelihood", "get_activation", "get_log_activation"}
        /\ args.predictive \in DOMAIN PREDICTIVE_DICT)
           => ret.raised = "None"

NameAcceptanceWitness ==
    /\ fn = "get_likelihood"
    /\ args.predictive = S_logit_link_sigmoid_product_output
    /\ args.predictive \in DOMAIN DIRICHLET_DICT
    /\ args.predictive \in DOMAIN PREDICTIVE_DICT
    /\ ret = Ok("sigmoid")

\* C22: the Hessian that hessian_is_psd() declares positive semi-definite has
\* no negative diagonal entry: every entry of
\* diag_hessian_normalized_sigmoid(logit, target) is >= 0, for every logit
\* matrix and every target.
DeclaredPsdHasNonNegativeDiagonal ==
    (fn = "diag_hessian_normalized_sigmoid" /\ hessian_is_psd) =>
        /\ ret.raised = "None"
        /\ \A c \in Classes : FLe(Zero, ret.value[c])

\* The scalar P = exp(mean(log_ratio)) of the fit with the moments M1, M2.
ConcentrationScale(M1, M2) ==
    FExp(FDiv(FSum(log_ratio(M1, M2, FMaximum(FSum(M1), One))),
              FromInt(NumClasses)))
\* dirichlet_predictive of the row the fit returned is M1 / sum(M1).
IsNormalizedMean(M1) ==
    /\ dirichlet_predictive(ret.value).raised = "None"
    /\ \A c \in Classes :
           Near(dirichlet_predictive(ret.value).value[c],
                FDiv(M1[c], FSum(M1)), SumTol)

\* C23: whenever the scalar P of get_mom_dirichlet_approximation is finite
\* and positive, dirichlet_predictive of the fitted parameters is
\* M1 / sum(M1), the un-floored probit_predictive, whatever M2 is.
ScaleCancels ==
    (/\ IsDirichletFit
     /\ ret.raised = "None"
     /\ PositiveFinite(ConcentrationScale(FitM1, FitM2)))
        => IsNormalizedMean(FitM1)

ScaleCancelsWitness ==
    /\ fn = "logit_link_sigmoid_product_output_dirichlet"
    /\ args.mean[1] = One
    /\ args.var[1] = Two
    /\ ret.raised = "None"
    /\ PositiveFinite(ConcentrationScale(FitM1, FitM2))
    /\ ~RowSumsToOne(ret.value)
    /\ IsNormalizedMean(FitM1)

====
